---------------------------- MODULE Spec2Model ----------------------------
(***************************************************************************)
(* A model of app/scripts/convert.py: the keymap keycode converter.        *)
(*                                                                         *)
(* Text is modelled character by character: a string is a sequence of      *)
(* one-character strings, a file is a sequence of bytes.  The one          *)
(* non-ASCII character of the model, U+00E9, is two bytes in UTF-8.        *)
(* Old and new keycodes are sequences of word characters (the source       *)
(* interpolates them into a pattern and a template without escaping; a     *)
(* keycode holding a pattern metacharacter or a backslash is not           *)
(* modelled).                                                              *)
(***************************************************************************)
EXTENDS Integers, Sequences, FiniteSets, TLC

(***************************************************************************)
(* Bounds of the model.                                                    *)
(***************************************************************************)
MaxLines == 2

MaxSubs == 2

MaxFiles == 2

(***************************************************************************)
(* Characters and bytes.                                                   *)
(***************************************************************************)
EACUTE == "U+00E9"

NL == "\n"

CR == "\r"

Digits == {"0", "1", "2", "8"}

OctDigits == {"0", "1", "2"}

\* The characters \w matches in a str pattern (Unicode aware).
WordChars ==
    {"A", "B", "C", "X", "N", "I", "J", "H", "P", "Q",
     "R", "k", "p", "m", "i", "n", "c", "d", "e", "x", "_", EACUTE} \cup Digits

IsWord(c) == c \in WordChars

\* bytes.decode("utf-8"): the character sequence, or a failure.
RECURSIVE DecodeFrom(_, _)
DecodeFrom(bytes, i) ==
    IF i > Len(bytes) THEN [ok |-> TRUE, text |-> <<>>]
    ELSE IF bytes[i] = "C3"
         THEN IF i + 1 <= Len(bytes) /\ bytes[i + 1] = "A9"
              THEN LET rest == DecodeFrom(bytes, i + 2)
                   IN  [ok |-> rest.ok, text |-> <<EACUTE>> \o rest.text]
              ELSE [ok |-> FALSE, text |-> <<>>]
         ELSE IF bytes[i] \in {"A9", "FF"}
              THEN [ok |-> FALSE, text |-> <<>>]
              ELSE LET rest == DecodeFrom(bytes, i + 1)
                   IN  [ok |-> rest.ok, text |-> <<bytes[i]>> \o rest.text]

Decode(bytes) == DecodeFrom(bytes, 1)

\* str.encode("utf-8")
RECURSIVE Encode(_)
Encode(text) ==
    IF text = <<>> THEN <<>>
    ELSE (IF Head(text) = EACUTE THEN <<"C3", "A9">> ELSE <<Head(text)>>)
         \o Encode(Tail(text))

\* str.split("\n"): always at least one line; a final newline gives an
\* empty last line.
RECURSIVE SplitFrom(_, _, _)
SplitFrom(text, i, current) ==
    IF i > Len(text) THEN <<current>>
    ELSE IF text[i] = NL
         THEN <<current>> \o SplitFrom(text, i + 1, <<>>)
         ELSE SplitFrom(text, i + 1, Append(current, text[i]))

\* A split that drops an empty last line, as str.splitlines does.
SplitNoTrailing(text) ==
    LET all == SplitFrom(text, 1, <<>>)
    IN  IF Len(all) > 1 /\ all[Len(all)] = <<>>
        THEN SubSeq(all, 1, Len(all) - 1)
        ELSE all

Split(text) == SplitFrom(text, 1, <<>>)

\* "\n".join(lines)
RECURSIVE Join(_)
Join(lines) ==
    IF lines = <<>> THEN <<>>
    ELSE IF Len(lines) = 1 THEN lines[1]
         ELSE lines[1] \o <<NL>> \o Join(Tail(lines))

(***************************************************************************)
(* The pattern of line 40: group 1 is the marker "&", an anchor name       *)
(* (inc_dec_kp, inc_dec_cp, or two word characters), one space and a       *)
(* greedy run of word characters; then a word boundary, the old keycode    *)
(* and a word boundary.  Matched the way a backtracking matcher does:      *)
(* alternatives in order, the run longest first.                           *)
(***************************************************************************)
CharAt(line, p) == IF p >= 1 /\ p <= Len(line) THEN line[p] ELSE ""

\* \b at the position before character p.
Boundary(line, p) == IsWord(CharAt(line, p - 1)) # IsWord(CharAt(line, p))

LitAt(line, p, lit) ==
    /\ p + Len(lit) - 1 <= Len(line)
    /\ \A k \in 1..Len(lit) : line[p + k - 1] = lit[k]

IncDecK == <<"i", "n", "c", "_", "d", "e", "c", "_", "k", "p">>
IncDecC == <<"i", "n", "c", "_", "d", "e", "c", "_", "c", "p">>

\* The positions right after the anchor name that starts at p, in the
\* order the alternation tries them.
\* The anchor without its inc_dec alternative.
AnchorEndsOnlyTwo(line, p) ==
    IF IsWord(CharAt(line, p)) /\ IsWord(CharAt(line, p + 1))
    THEN <<p + 2>> ELSE <<>>

AnchorEnds(line, p) ==
    (IF LitAt(line, p, IncDecK) \/ LitAt(line, p, IncDecC)
     THEN <<p + 10>> ELSE <<>>)
    \o (IF IsWord(CharAt(line, p)) /\ IsWord(CharAt(line, p + 1))
        THEN <<p + 2>> ELSE <<>>)

\* The number of word characters from position p on.
RECURSIVE WordRun(_, _)
WordRun(line, p) ==
    IF IsWord(CharAt(line, p)) THEN 1 + WordRun(line, p + 1) ELSE 0

\* The run, the boundary, the old keycode and the boundary from position s:
\* the position where the old keycode starts, or 0.
TailAt(line, s, old) ==
    LET ks == {k \in 0..WordRun(line, s) :
                  /\ Boundary(line, s + k)
                  /\ LitAt(line, s + k, old)
                  /\ Boundary(line, s + k + Len(old))}
    IN  IF ks = {} THEN 0
        ELSE s + (CHOOSE k \in ks : \A j \in ks : j <= k)

\* The match that starts at position i: [found, mid, end] where group 1 is
\* line[i..mid-1] and the match is line[i..end-1].
RECURSIVE TryAnchors(_, _, _)
TryAnchors(line, ends, old) ==
    IF ends = <<>> THEN 0
    ELSE LET e == Head(ends)
             t == IF CharAt(line, e) = " " THEN TailAt(line, e + 1, old) ELSE 0
         IN  IF t # 0 THEN t ELSE TryAnchors(line, Tail(ends), old)

MatchAt(line, i, old) ==
    IF CharAt(line, i) = "&"
    THEN TryAnchors(line, AnchorEnds(line, i + 1), old)
    ELSE 0

\* old_keycode_regex.search(line)
Search(line, old) == \E i \in 1..Len(line) : MatchAt(line, i, old) # 0

(***************************************************************************)
(* The replacement template "\\1" + new, parsed as the re module parses    *)
(* it: a digit after \1 makes a two-digit group number, or with a third    *)
(* octal digit an octal escape.                                            *)
(***************************************************************************)
DigitValue(d) == CASE d = "0" -> 0 [] d = "1" -> 1 [] d = "2" -> 2 [] d = "8" -> 8

\* chr() of the codes an escape \1xy can name with the model's digits.
Chr(code) ==
    CASE code = 64 -> "@" [] code = 65 -> "A" [] code = 66 -> "B"
      [] code = 72 -> "H" [] code = 73 -> "I" [] code = 74 -> "J"
      [] code = 80 -> "P" [] code = 81 -> "Q" [] code = 82 -> "R"

\* [ok, group, literal]: the template is group 1 (when group) followed by
\* literal; not ok is re.error "invalid group reference".
\* The template that takes the new keycode as it is written.
TemplateVerbatim(new) == [ok |-> TRUE, group |-> TRUE, literal |-> new]

Template(new) ==
    IF new = <<>> \/ Head(new) \notin Digits
    THEN [ok |-> TRUE, group |-> TRUE, literal |-> new]
    ELSE IF /\ Len(new) >= 2
            /\ Head(new) \in OctDigits
            /\ new[2] \in OctDigits
         THEN [ok |-> TRUE, group |-> FALSE,
               literal |-> <<Chr(64 + 8 * DigitValue(new[1]) + DigitValue(new[2]))>>
                           \o SubSeq(new, 3, Len(new))]
         ELSE [ok |-> FALSE, group |-> FALSE, literal |-> <<>>]

\* old_keycode_regex.sub(template, line): every non-overlapping match,
\* leftmost first, replaced by the expanded template.
RECURSIVE SubFrom(_, _, _, _)
SubFrom(line, pos, old, tpl) ==
    IF pos > Len(line) THEN <<>>
    ELSE LET mid == MatchAt(line, pos, old)
         IN  IF mid = 0
             THEN <<line[pos]>> \o SubFrom(line, pos + 1, old, tpl)
             ELSE (IF tpl.group THEN SubSeq(line, pos, mid - 1) ELSE <<>>)
                  \o tpl.literal
                  \o SubFrom(line, mid + Len(old), old, tpl)

Sub(line, old, tpl) == SubFrom(line, 1, old, tpl)

(***************************************************************************)
(* JSON values and the substitution table.                                 *)
(***************************************************************************)
\* json.load gives None for null and a str for a string.
None == [null |-> TRUE, str |-> <<>>]

JStr(t) == [null |-> FALSE, str |-> t]

\* A JSON object with the keys that are present.
Object(hasFrom, from, hasTo, to) ==
    [k \in ((IF hasFrom THEN {"from"} ELSE {}) \cup (IF hasTo THEN {"to"} ELSE {}))
        |-> IF k = "from" THEN from ELSE to]

\* A file's content as json.load sees it: not valid JSON, or an array of
\* objects.
InvalidJson == [valid |-> FALSE, value |-> <<>>]

JsonArray(objects) == [valid |-> TRUE, value |-> objects]

\* load_substitutions: the pairs (s["from"], s["to"]) in array order; a
\* missing key is a KeyError, invalid JSON a JSONDecodeError.
load_substitutions(doc) ==
    IF ~doc.valid THEN [ok |-> FALSE, error |-> "JSONDecodeError", value |-> <<>>]
    ELSE IF \E i \in 1..Len(doc.value) :
               "from" \notin DOMAIN doc.value[i] \/ "to" \notin DOMAIN doc.value[i]
         THEN [ok |-> FALSE, error |-> "KeyError", value |-> <<>>]
         ELSE [ok |-> TRUE, error |-> "",
               value |-> [i \in 1..Len(doc.value) |->
                            <<doc.value[i]["from"], doc.value[i]["to"]>>]]

\* A value as an f-string interpolates it.
Interpolate(v) == IF v.null THEN <<"N", "o", "n", "e">> ELSE v.str

(***************************************************************************)
(* Paths and the file system.  A name is <<stem, suffix>>; a path is the   *)
(* names of its directories and its own name.                              *)
(***************************************************************************)
Path(dirs, stem, suffix) == [dirs |-> dirs, name |-> <<stem, suffix>>]

\* pathlib's PurePath.suffix
Suffix(p) == p.name[2]

\* p lies below directory d, at any depth.
Under(p, d) ==
    /\ Len(p.dirs) > Len(d.dirs)
    /\ SubSeq(p.dirs, 1, Len(d.dirs) + 1) = d.dirs \o <<d.name>>

ConfigDir == Path(<<>>, "config", "")

\* The directories from ConfigDir down to depth n.
DirChain(n) == [j \in 1..n |-> IF j = 1 THEN <<"config", "">> ELSE <<"sub", "">>]

SubDir(n) == Path(DirChain(n), "sub", "")

\* The i-th keymap file lies i - 1 directories below ConfigDir.
KeymapFile(i) == Path(DirChain(i), "layout", ".keymap")

TextFile == Path(DirChain(1), "readme", ".txt")

UpperFile == Path(DirChain(1), "layout", ".KEYMAP")

KeymapDir == Path(DirChain(1), "boards", ".keymap")

MissingKeymap == Path(<<>>, "missing", ".keymap")

SubsJson == Path(<<>>, "substitutions", ".json")

SubsTxt == Path(<<>>, "substitutions", ".txt")

MissingJson == Path(<<>>, "missing", ".json")

JsonDir == Path(<<>>, "tables", ".json")

KeymapFiles == {KeymapFile(i) : i \in 1..MaxFiles}

OtherFiles == {TextFile, UpperFile}

Paths ==
    KeymapFiles \cup OtherFiles
    \cup {SubDir(n) : n \in 1..(MaxFiles - 1)}
    \cup {ConfigDir, KeymapDir, MissingKeymap, SubsJson, SubsTxt, MissingJson, JsonDir}

NoNode == [kind |-> "none", bytes |-> <<>>]

DirNode == [kind |-> "dir", bytes |-> <<>>]

FileNode(bytes) == [kind |-> "file", bytes |-> bytes]

VARIABLES
    dry_run,            \* ARGS.dry_run
    substitution_file,  \* ARGS.substitution_file, as a path
    keymap_path,        \* ARGS.keymap_path, as a path
    substitution_json,  \* what the substitution file holds
    fs,                 \* the file system: path -> node
    mtime,              \* path -> the number of writes to it
    stdout,             \* the messages printed
    pc,                 \* where the program is
    error,              \* the exception that ended the run, or ""
    substitutions,      \* main's table
    todo,               \* the paths the glob has not produced yet
    cur,                \* format_file's keymap_file_path
    keymap_file,        \* format_file's list of lines
    idx,                \* the position of format_file's loop in the table
    handed,             \* the paths format_file was called with, in order
    fs0                 \* the file system when the program started

vars ==
    <<dry_run, substitution_file, keymap_path, substitution_json, fs, mtime,
      stdout, pc, error, substitutions, todo, cur, keymap_file, idx, handed, fs0>>

args == <<dry_run, substitution_file, keymap_path, substitution_json, fs0>>

Message(kind, file, old, new, n) ==
    [kind |-> kind, file |-> file, old |-> old, new |-> new, n |-> n]

is_file(p) == fs[p].kind = "file"

is_dir(p) == fs[p].kind = "dir"

\* keymap_file_path.glob("**/*.keymap"): every entry below the directory,
\* at any depth, whose name ends in .keymap (a directory too).
\* A glob that does not tell the case of the suffix.
GlobAnyCase(d) ==
    {p \in Paths : fs[p].kind # "none" /\ Under(p, d)
                   /\ Suffix(p) \in {".keymap", ".KEYMAP"}}

Glob(d) ==
    {p \in Paths : fs[p].kind # "none" /\ Under(p, d) /\ Suffix(p) = ".keymap"}

(***************************************************************************)
(* main                                                                    *)
(***************************************************************************)
\* Lines 90-97: the checks of the substitution file's path.
MainValidate ==
    /\ pc = "main"
    /\ IF ~is_file(substitution_file)
       THEN /\ stdout' = Append(stdout, Message("not_a_file", substitution_file, <<>>, None, 0))
            /\ pc' = "aborted"
       ELSE IF Suffix(substitution_file) # ".json"
            THEN /\ stdout' = Append(stdout, Message("not_json", substitution_file, <<>>, None, 0))
                 /\ pc' = "aborted"
            ELSE /\ stdout' = stdout
                 /\ pc' = "load"
    /\ UNCHANGED <<args, fs, mtime, error, substitutions, todo, cur, keymap_file, idx, handed>>

\* Line 99: the table is loaded; an exception ends the run.
MainLoad ==
    /\ pc = "load"
    /\ LET r == load_substitutions(substitution_json)
       IN  IF r.ok
           THEN /\ substitutions' = r.value
                /\ pc' = "resolve"
                /\ error' = error
           ELSE /\ substitutions' = substitutions
                /\ pc' = "crashed"
                /\ error' = r.error
    /\ UNCHANGED <<args, fs, mtime, stdout, todo, cur, keymap_file, idx, handed>>

\* Lines 101-115: a directory starts the glob, a .keymap file is
\* formatted, anything else aborts.
MainResolve ==
    /\ pc = "resolve"
    /\ IF is_dir(keymap_path)
       THEN /\ todo' = Glob(keymap_path)
            /\ pc' = "main_loop"
            /\ UNCHANGED <<stdout, cur, handed>>
       ELSE IF is_file(keymap_path) /\ Suffix(keymap_path) = ".keymap"
            THEN /\ cur' = keymap_path
                 /\ handed' = Append(handed, keymap_path)
                 /\ pc' = "format_read"
                 /\ UNCHANGED <<stdout, todo>>
            ELSE /\ stdout' = Append(stdout, Message("not_keymap", keymap_path, <<>>, None, 0))
                 /\ pc' = "aborted"
                 /\ UNCHANGED <<todo, cur, handed>>
    /\ UNCHANGED <<args, fs, mtime, error, substitutions, keymap_file, idx>>

\* Lines 106-108: the glob produces its next path, in no fixed order.
GlobNext ==
    /\ pc = "main_loop"
    /\ \E f \in todo :
          /\ todo' = todo \ {f}
          /\ stdout' = Append(stdout, Message("sorting_out", f, <<>>, None, 0))
          /\ cur' = f
          /\ handed' = Append(handed, f)
    /\ pc' = "format_read"
    /\ UNCHANGED <<args, fs, mtime, error, substitutions, keymap_file, idx>>

\* The glob is exhausted (or the one file is done): main returns.
MainReturn ==
    /\ pc = "main_loop"
    /\ todo = {}
    /\ pc' = "done"
    /\ UNCHANGED <<args, fs, mtime, stdout, error, substitutions, todo, cur,
                   keymap_file, idx, handed>>

(***************************************************************************)
(* format_file                                                             *)
(***************************************************************************)
\* format_file as it would be with the file opened for writing before it
\* is decoded: a failed decode leaves the file empty.
FormatReadOpenedForWriting ==
    /\ pc = "format_read"
    /\ IF ~is_file(cur)
       THEN /\ pc' = "crashed"
            /\ error' = "IsADirectoryError"
            /\ UNCHANGED <<keymap_file, idx, fs, mtime>>
       ELSE LET d == Decode(fs[cur].bytes)
            IN  IF ~d.ok
                THEN /\ pc' = "crashed"
                     /\ error' = "UnicodeDecodeError"
                     /\ fs' = [fs EXCEPT ![cur] = FileNode(<<>>)]
                     /\ mtime' = [mtime EXCEPT ![cur] = @ + 1]
                     /\ UNCHANGED <<keymap_file, idx>>
                ELSE /\ keymap_file' = Split(d.text)
                     /\ idx' = 1
                     /\ pc' = "format_loop"
                     /\ UNCHANGED <<error, fs, mtime>>
    /\ UNCHANGED <<args, stdout, substitutions, todo, cur, handed>>

\* Lines 30-31: read, decode, split.  Reading a directory and decoding
\* bytes that are not UTF-8 raise.
FormatRead ==
    /\ pc = "format_read"
    /\ IF ~is_file(cur)
       THEN /\ pc' = "crashed"
            /\ error' = "IsADirectoryError"
            /\ UNCHANGED <<keymap_file, idx>>
       ELSE LET d == Decode(fs[cur].bytes)
            IN  IF ~d.ok
                THEN /\ pc' = "crashed"
                     /\ error' = "UnicodeDecodeError"
                     /\ UNCHANGED <<keymap_file, idx>>
                ELSE /\ keymap_file' = Split(d.text)
                     /\ idx' = 1
                     /\ pc' = "format_loop"
                     /\ error' = error
    /\ UNCHANGED <<args, fs, mtime, stdout, substitutions, todo, cur, handed>>

\* Lines 42-44
lines_to_update(lines, old) == {i \in 1..Len(lines) : Search(lines[i], old)}

\* Lines 64-67
replace_lines(lines, old, tpl) ==
    [i \in 1..Len(lines) |->
        IF i \in lines_to_update(lines, old) THEN Sub(lines[i], old, tpl) ELSE lines[i]]

\* Line 33: the loop takes the table's entries in order.
\* The table taken from its end.
entry_at_reversed(table, i) == table[Len(table) + 1 - i]

entry_at(table, i) == table[i]

\* Line 49
\* A loop without the test of line 49.
has_no_replacement_never(new_keycode) == FALSE

has_no_replacement(new_keycode) == new_keycode = None

\* Lines 33-67: one pass of the loop over the table.
FormatEntry ==
    /\ pc = "format_loop"
    /\ idx <= Len(substitutions)
    /\ LET old_keycode == Interpolate(entry_at(substitutions, idx)[1])
           new_keycode == entry_at(substitutions, idx)[2]
           n == Cardinality(lines_to_update(keymap_file, old_keycode))
           tpl == Template(Interpolate(new_keycode))
       IN  IF n = 0
           THEN /\ idx' = idx + 1
                /\ UNCHANGED <<stdout, keymap_file, pc, error>>
           ELSE IF has_no_replacement(new_keycode)
                THEN /\ stdout' = Append(stdout,
                            Message("no_replacement", cur, old_keycode, None, 0))
                     /\ idx' = idx + 1
                     /\ UNCHANGED <<keymap_file, pc, error>>
                ELSE IF dry_run
                     THEN /\ stdout' = Append(stdout,
                                 Message("would_replace", cur, old_keycode, new_keycode, n))
                          /\ idx' = idx + 1
                          /\ UNCHANGED <<keymap_file, pc, error>>
                     ELSE IF ~tpl.ok
                          THEN /\ pc' = "crashed"
                               /\ error' = "re.error"
                               /\ UNCHANGED <<stdout, keymap_file, idx>>
                          ELSE /\ keymap_file' = replace_lines(keymap_file, old_keycode, tpl)
                               /\ idx' = idx + 1
                               /\ UNCHANGED <<stdout, pc, error>>
    /\ UNCHANGED <<args, fs, mtime, substitutions, todo, cur, handed>>

\* Lines 71-73: join, encode, write; format_file returns to main.
write_back(lines) ==
    /\ fs' = [fs EXCEPT ![cur] = FileNode(Encode(Join(lines)))]
    /\ mtime' = [mtime EXCEPT ![cur] = @ + 1]

FormatWrite ==
    /\ pc = "format_loop"
    /\ idx > Len(substitutions)
    /\ write_back(keymap_file)
    /\ pc' = "main_loop"
    /\ UNCHANGED <<args, stdout, error, substitutions, todo, cur, keymap_file, idx, handed>>

(***************************************************************************)
(* The whole program, started on a small tree.                             *)
(***************************************************************************)
TokA == <<"A">>

TokB == <<"B">>

TokC == <<"C">>

LineKpA == <<"&", "k", "p", " ", "A">>

LineKpB == <<"&", "k", "p", " ", "B">>

\* The tables main is started with.
MainDocs ==
    {InvalidJson,
     JsonArray(<<>>),
     JsonArray(<<Object(TRUE, JStr(TokA), TRUE, JStr(TokB))>>),
     JsonArray(<<Object(TRUE, JStr(TokA), TRUE, None)>>),
     JsonArray(<<Object(TRUE, JStr(TokA), FALSE, None)>>),
     JsonArray(<<Object(TRUE, JStr(TokA), TRUE, JStr(<<"1", "B">>))>>),
     JsonArray(<<Object(TRUE, JStr(TokA), TRUE, JStr(TokB)),
                 Object(TRUE, JStr(TokB), TRUE, JStr(TokC))>>)}

\* The contents a keymap file of the tree starts with.
MainContents ==
    {Encode(LineKpA), Encode(LineKpB \o <<NL>>), <<"x", "C3", "A9">>, <<"FF">>}

InitCommon ==
    /\ mtime = [p \in Paths |-> 0]
    /\ stdout = <<>>
    /\ error = ""
    /\ keymap_file = <<>>
    /\ idx = 0
    /\ fs0 = fs

TreeOf(contents, keymapDir) ==
    [p \in Paths |->
        IF p \in KeymapFiles THEN FileNode(contents[p])
        ELSE IF p \in OtherFiles THEN FileNode(Encode(LineKpA))
        ELSE IF p \in {SubsJson, SubsTxt} THEN FileNode(<<>>)
        ELSE IF p \in {MissingKeymap, MissingJson} THEN NoNode
        ELSE IF p = KeymapDir THEN keymapDir
        ELSE DirNode]

Init ==
    /\ dry_run \in BOOLEAN
    /\ substitution_file \in {SubsJson, SubsTxt, MissingJson, JsonDir}
    /\ keymap_path \in {ConfigDir, KeymapFile(1), TextFile, MissingKeymap}
    /\ substitution_json \in MainDocs
    /\ \E contents \in [KeymapFiles -> MainContents], keymapDir \in {NoNode, DirNode} :
          fs = TreeOf(contents, keymapDir)
    /\ pc = "main"
    /\ substitutions = <<>>
    /\ todo = {}
    /\ cur = keymap_path
    /\ handed = <<>>
    /\ InitCommon

Next ==
    \/ MainValidate
    \/ MainLoad
    \/ MainResolve
    \/ GlobNext
    \/ MainReturn
    \/ FormatRead
    \/ FormatEntry
    \/ FormatWrite

Spec == Init /\ [][Next]_vars

(***************************************************************************)
(* format_file alone, called on one file with any table and content of     *)
(* the bounded sets below.                                                 *)
(***************************************************************************)
\* A line no keycode of the tables matches, with a non-ASCII character and
\* a carriage return.
LineOther == <<"&", "m", "x", " ", "A", "X", " ", EACUTE, CR>>

LineSet == {<<>>, LineKpA, LineKpB, LineOther}

\* Every file of at most MaxLines lines, and one that is not UTF-8.
Contents ==
    {Encode(Join(ls)) : ls \in UNION {[1..n -> LineSet] : n \in 1..MaxLines}}
    \cup {<<"&", "FF">>}

EntrySet ==
    {<<JStr(TokA), JStr(TokB)>>,
     <<JStr(TokB), JStr(TokC)>>,
     <<JStr(TokA), None>>,
     <<JStr(TokA), JStr(<<"1", "B">>)>>,
     <<JStr(TokA), JStr(<<"1", "2">>)>>}

Tables == UNION {[1..n -> EntrySet] : n \in 0..MaxSubs}

\* The JSON array a table is loaded from.
DocOf(table) ==
    JsonArray([i \in 1..Len(table) |-> Object(TRUE, table[i][1], TRUE, table[i][2])])

\* The state in which main calls format_file on the file KeymapFile(1).
InitCall(table, content) ==
    /\ substitution_file = SubsJson
    /\ keymap_path = KeymapFile(1)
    /\ substitution_json = DocOf(table)
    /\ substitutions = table
    /\ fs = TreeOf([p \in KeymapFiles |->
                       IF p = KeymapFile(1) THEN content ELSE Encode(LineKpA)], NoNode)
    /\ pc = "format_read"
    /\ todo = {}
    /\ cur = KeymapFile(1)
    /\ handed = <<KeymapFile(1)>>
    /\ InitCommon

InitFormat ==
    /\ dry_run \in BOOLEAN
    /\ \E table \in Tables, content \in Contents : InitCall(table, content)

NextFormat ==
    \/ FormatRead
    \/ FormatEntry
    \/ FormatWrite

SpecFormat == InitFormat /\ [][NextFormat]_vars

(***************************************************************************)
(* format_file on one line and one entry: the line is a binding put        *)
(* together from the parts below, so that each part of the pattern is met  *)
(* and missed.                                                             *)
(***************************************************************************)
TokN1 == <<"N", "1">>

PartBefore == {<<>>, <<"x">>, <<" ">>}

PartMarker == {<<"&">>, <<>>}

PartAnchor ==
    {<<"k", "p">>, <<"k">>, <<"m", "k", "p">>, IncDecK, IncDecC,
     <<"i", "n", "c", "_", "d", "e", "c", "_", "x", "p">>, <<EACUTE, "1">>}

PartSpace == {<<" ">>, <<>>, <<" ", " ">>}

PartPrefix == {<<>>, <<"X">>, <<"X", " ">>}

PartToken == {TokA, TokN1}

PartAfter == {<<>>, <<"X">>, <<" ">>, <<";">>, <<CR>>, <<" ">> \o LineKpA}

MatchLines ==
    {b \o m \o a \o s \o x \o t \o e :
        b \in PartBefore, m \in PartMarker, a \in PartAnchor, s \in PartSpace,
        x \in PartPrefix, t \in PartToken, e \in PartAfter}

MatchEntries == {<<JStr(TokA), JStr(TokB)>>, <<JStr(TokN1), JStr(TokC)>>}

InitMatch ==
    /\ dry_run = FALSE
    /\ \E e \in MatchEntries, line \in MatchLines : InitCall(<<e>>, Encode(line))

SpecMatch == InitMatch /\ [][NextFormat]_vars

(***************************************************************************)
(* load_substitutions alone, on any array of at most MaxSubs objects.      *)
(***************************************************************************)
ObjectSet ==
    {Object(hasFrom, JStr(from), hasTo, to) :
        hasFrom \in BOOLEAN, from \in {TokA, TokB},
        hasTo \in BOOLEAN, to \in {None, JStr(TokB), JStr(TokC)}}

JsonDocs ==
    {JsonArray(objects) : objects \in UNION {[1..n -> ObjectSet] : n \in 0..MaxSubs}}
    \cup {InvalidJson}

InitLoad ==
    /\ dry_run \in BOOLEAN
    /\ substitution_file = SubsJson
    /\ keymap_path = ConfigDir
    /\ substitution_json \in JsonDocs
    /\ fs = TreeOf([p \in KeymapFiles |-> Encode(LineKpA)], NoNode)
    /\ pc = "load"
    /\ substitutions = <<>>
    /\ todo = {}
    /\ cur = keymap_path
    /\ handed = <<>>
    /\ InitCommon

NextLoad == MainLoad

SpecLoad == InitLoad /\ [][NextLoad]_vars

(***************************************************************************)
(* Definitions the properties below share.                                 *)
(***************************************************************************)
Range(seq) == {seq[i] : i \in 1..Len(seq)}

\* The lines of file p as the program found it.
Lines0(p) == Split(Decode(fs0[p].bytes).text)

OldOf(k) == Interpolate(substitutions[k][1])

NewOf(k) == substitutions[k][2]

Matches(lines, old) == \E i \in 1..Len(lines) : Search(lines[i], old)

\* One entry applied to every line as a pass of its own.
OnePass(entry, lines) ==
    IF entry[2] = None THEN lines
    ELSE [i \in 1..Len(lines) |->
            IF Search(lines[i], Interpolate(entry[1]))
            THEN Sub(lines[i], Interpolate(entry[1]), Template(Interpolate(entry[2])))
            ELSE lines[i]]

\* The passes of the first k entries of the table, composed left to right.
RECURSIVE Compose(_, _, _)
Compose(table, k, lines) ==
    IF k = 0 THEN lines ELSE OnePass(table[k], Compose(table, k - 1, lines))

(***************************************************************************)
(* C1: in dry-run mode no file is written: neither the bytes nor the       *)
(* modification time of any file change.                                   *)
(***************************************************************************)
C1_DryRunWritesNothing ==
    dry_run => \A p \in Paths : fs[p] = fs0[p] /\ mtime[p] = 0

(***************************************************************************)
(* C2: in a non-dry-run, an entry with a new token that matches some line  *)
(* replaces each matched region by the captured group followed by the new  *)
(* token verbatim, whatever the new token is; the other lines and the      *)
(* number of lines stay.                                                   *)
(***************************************************************************)
C2_NewTokenVerbatim ==
    [][(/\ pc = "format_loop"
        /\ idx <= Len(substitutions)
        /\ ~dry_run
        /\ NewOf(idx) # None
        /\ Matches(keymap_file, OldOf(idx)))
       => (/\ pc' = "format_loop"
           /\ idx' = idx + 1
           /\ keymap_file' =
                 [i \in 1..Len(keymap_file) |->
                     IF Search(keymap_file[i], OldOf(idx))
                     THEN Sub(keymap_file[i], OldOf(idx), TemplateVerbatim(NewOf(idx).str))
                     ELSE keymap_file[i]])]_vars

(***************************************************************************)
(* C3: for an old token that is a plain identifier, a line is selected by  *)
(* an entry exactly when it holds the marker, then inc_dec_kp, inc_dec_cp  *)
(* or two word characters, then one space, then the old token as a whole   *)
(* word; a selected line is written back with each such token replaced by  *)
(* the new one, any other line as it was.                                  *)
(***************************************************************************)
\* The length of the anchor name of a binding of old that starts with the
\* marker at position p, or 0.
BindingAt(line, p, old) ==
    LET fits(a) ==
            /\ CharAt(line, p + a + 1) = " "
            /\ LitAt(line, p + a + 2, old)
            /\ ~IsWord(CharAt(line, p + a + 2 + Len(old)))
    IN  IF CharAt(line, p) # "&" THEN 0
        ELSE IF (LitAt(line, p + 1, IncDecK) \/ LitAt(line, p + 1, IncDecC)) /\ fits(10)
             THEN 10
             ELSE IF IsWord(CharAt(line, p + 1)) /\ IsWord(CharAt(line, p + 2)) /\ fits(2)
                  THEN 2
                  ELSE 0

HasBinding(line, old) == \E p \in 1..Len(line) : BindingAt(line, p, old) # 0

\* The line with the old token of every binding replaced by new.
RECURSIVE Rebound(_, _, _, _)
Rebound(line, p, old, new) ==
    IF p > Len(line) THEN <<>>
    ELSE LET a == BindingAt(line, p, old)
         IN  IF a = 0
             THEN <<line[p]>> \o Rebound(line, p + 1, old, new)
             ELSE SubSeq(line, p, p + a + 1) \o new
                  \o Rebound(line, p + a + 2 + Len(old), old, new)

\* C3: selection is the direct description of a binding, and the file
\* written holds each bound token replaced and every other line as it was.
C3_SelectedLines ==
    /\ (pc = "format_loop" /\ idx <= Len(substitutions))
       => \A i \in 1..Len(keymap_file) :
             (i \in lines_to_update(keymap_file, OldOf(idx)))
             <=> HasBinding(keymap_file[i], OldOf(idx))
    /\ (pc = "main_loop" /\ Len(substitutions) = 1)
       => LET lines == Lines0(cur)
              written == Split(Decode(fs[cur].bytes).text)
          IN  /\ Len(written) = Len(lines)
              /\ \A i \in 1..Len(lines) :
                    /\ written[i] = Rebound(lines[i], 1, OldOf(1), NewOf(1).str)
                    /\ ~HasBinding(lines[i], OldOf(1)) => written[i] = lines[i]
                    /\ HasBinding(lines[i], OldOf(1)) => written[i] # lines[i]

C3_Witness ==
    /\ pc = "main_loop"
    /\ substitutions = <<<<JStr(TokA), JStr(TokB)>>>>
    /\ fs0[cur].bytes = <<"&">> \o IncDecK \o <<" ", "A">>
    /\ fs[cur].bytes = <<"&">> \o IncDecK \o <<" ", "B">>

(***************************************************************************)
(* C4: load_substitutions returns one pair per element of the array, in    *)
(* array order and without deduplication; a "to" that is null or absent    *)
(* gives a pair with no replacement; loading fails only for invalid JSON   *)
(* or an element without "from".                                           *)
(***************************************************************************)
C4_LoadSubstitutions ==
    pc # "load" =>
       LET doc == substitution_json
       IN  IF ~doc.valid \/ \E i \in 1..Len(doc.value) : "from" \notin DOMAIN doc.value[i]
           THEN pc = "crashed"
           ELSE /\ pc = "resolve"
                /\ Len(substitutions) = Len(doc.value)
                /\ \A i \in 1..Len(doc.value) :
                      substitutions[i] =
                         <<doc.value[i]["from"],
                           IF "to" \in DOMAIN doc.value[i] THEN doc.value[i]["to"] ELSE None>>

(***************************************************************************)
(* C5: an entry with no replacement that matches a line prints one         *)
(* diagnostic naming the file and the old token, changes no line, and the  *)
(* loop goes on with the next entry; one that matches no line prints       *)
(* nothing.  When no entry with a replacement matches, the file is         *)
(* byte-identical after the run.                                           *)
(***************************************************************************)
C5_Step ==
    (/\ pc = "format_loop"
     /\ idx <= Len(substitutions)
     /\ NewOf(idx) = None)
    => (/\ stdout' = IF Matches(keymap_file, OldOf(idx))
                     THEN Append(stdout, Message("no_replacement", cur, OldOf(idx), None, 0))
                     ELSE stdout
        /\ keymap_file' = keymap_file
        /\ idx' = idx + 1
        /\ pc' = "format_loop")

OnlyNullEntriesMatch ==
    \A k \in 1..Len(substitutions) :
       NewOf(k) # None => ~Matches(Lines0(cur), OldOf(k))

C5_Final ==
    (pc = "main_loop" /\ OnlyNullEntriesMatch) => fs[cur].bytes = fs0[cur].bytes

\* C5: every step on an entry without a replacement, and the file at the
\* end of format_file.
C5_NoReplacement == [][C5_Step]_vars /\ []C5_Final

C5_Witness ==
    /\ pc = "main_loop"
    /\ ~dry_run
    /\ Len(substitutions) = 2
    /\ NewOf(1) = None
    /\ NewOf(2) # None
    /\ Matches(Lines0(cur), OldOf(1))
    /\ OnlyNullEntriesMatch
    /\ stdout = <<Message("no_replacement", cur, OldOf(1), None, 0)>>
    /\ fs[cur].bytes = fs0[cur].bytes
    /\ mtime[cur] = 1

(***************************************************************************)
(* C6: the files main hands to format_file.  Nothing is handed over when   *)
(* the substitution path is not a file named .json or the keymap path is   *)
(* neither a directory nor a .keymap file; a path handed over is the       *)
(* keymap path or lies below it, is named .keymap and is handed over       *)
(* once; a file that was not handed over is untouched.  At the end of a    *)
(* run that no exception stopped, the files handed over are the one        *)
(* .keymap file, or all the .keymap files below the directory.             *)
(***************************************************************************)
ArgsValid ==
    /\ fs0[substitution_file].kind = "file"
    /\ Suffix(substitution_file) = ".json"
    /\ \/ fs0[keymap_path].kind = "dir"
       \/ fs0[keymap_path].kind = "file" /\ Suffix(keymap_path) = ".keymap"

\* The files the arguments name.
Expected ==
    IF ~ArgsValid THEN {}
    ELSE IF fs0[keymap_path].kind = "file" THEN {keymap_path}
    ELSE {p \in Paths : /\ fs0[p].kind = "file"
                        /\ Under(p, keymap_path)
                        /\ Suffix(p) = ".keymap"}

\* C6, with the files handed over fixed only for a run no exception stops.
C6_FilesHanded ==
    /\ ~ArgsValid => handed = <<>>
    /\ \A i, j \in 1..Len(handed) : handed[i] = handed[j] => i = j
    /\ \A p \in Range(handed) :
          /\ Suffix(p) = ".keymap"
          /\ p = keymap_path \/ Under(p, keymap_path)
    /\ \A p \in Paths \ Range(handed) : fs[p] = fs0[p] /\ mtime[p] = 0
    /\ \A p \in Paths : mtime[p] <= 1
    /\ pc = "aborted" => handed = <<>>
    /\ pc = "done" => Range(handed) = Expected

C6_Witness ==
    /\ pc = "done"
    /\ fs0[keymap_path].kind = "dir"
    /\ Range(handed) = KeymapFiles
    /\ Len(handed) = MaxFiles
    /\ \A p \in KeymapFiles : mtime[p] = 1
    /\ \A p \in OtherFiles : mtime[p] = 0 /\ fs[p] = fs0[p]

\* C6 with the files fixed by the arguments alone: whenever the table was
\* loaded, the files handed over by the end of the run are those the
\* arguments name.
C6_FixedByArguments ==
    (pc \in {"done", "aborted", "crashed"}
     /\ error \notin {"JSONDecodeError", "KeyError"})
    => Range(handed) = Expected

(***************************************************************************)
(* C7: a non-dry-run on a file no entry matches writes back the bytes it   *)
(* read: decoding, splitting on newline, joining with newline and          *)
(* encoding give the file's content back.                                  *)
(***************************************************************************)
NoEntryMatches ==
    \A k \in 1..Len(substitutions) : ~Matches(Lines0(cur), OldOf(k))

\* C7: the lines read give the bytes read back, and so does the write
\* when no entry matches.
C7_RoundTrip ==
    /\ (pc = "format_loop" /\ idx = 1) => Encode(Join(keymap_file)) = fs0[cur].bytes
    /\ (pc = "main_loop" /\ ~dry_run /\ NoEntryMatches)
       => fs[cur].bytes = fs0[cur].bytes /\ mtime[cur] = 1

C7_Witness ==
    /\ pc = "main_loop"
    /\ ~dry_run
    /\ Len(substitutions) = MaxSubs
    /\ NoEntryMatches
    /\ fs0[cur].bytes = Encode(LineOther \o <<NL>>)
    /\ fs[cur].bytes = fs0[cur].bytes
    /\ mtime[cur] = 1

(***************************************************************************)
(* C8: format_file applies the entries in table order, each as a pass      *)
(* over the content the earlier entries left: the content written is the   *)
(* left-to-right composition of the passes.  With (A,B) then (B,C) a line  *)
(* "&kp A" ends as "&kp C"; with (B,C) then (A,B) it ends as "&kp B".      *)
(***************************************************************************)
EntryAB == <<JStr(TokA), JStr(TokB)>>

EntryBC == <<JStr(TokB), JStr(TokC)>>

LineKpC == <<"&", "k", "p", " ", "C">>

\* C8: the loop and the write are the composition of the passes.
C8_TableOrder ==
    /\ (pc = "format_loop" /\ ~dry_run)
       => keymap_file = Compose(substitutions, idx - 1, Lines0(cur))
    /\ (pc = "main_loop" /\ ~dry_run)
       => /\ fs[cur].bytes =
                Encode(Join(Compose(substitutions, Len(substitutions), Lines0(cur))))
          /\ (substitutions = <<EntryAB, EntryBC>> /\ Lines0(cur) = <<LineKpA>>)
                => fs[cur].bytes = Encode(LineKpC)
          /\ (substitutions = <<EntryBC, EntryAB>> /\ Lines0(cur) = <<LineKpA>>)
                => fs[cur].bytes = Encode(LineKpB)

C8_Witness ==
    /\ pc = "main_loop"
    /\ ~dry_run
    /\ substitutions = <<EntryAB, EntryBC>>
    /\ Lines0(cur) = <<LineKpA>>
    /\ fs[cur].bytes = Encode(LineKpC)

(***************************************************************************)
(* C9: when reading or decoding the k-th file of a directory run fails,    *)
(* the run stops there: the files handed over before hold their rewritten  *)
(* content, the k-th file and every file not yet handed over are as they   *)
(* were, and nothing is undone.                                            *)
(***************************************************************************)
\* What a completed format_file leaves in file p.
Rewritten(p) ==
    IF dry_run THEN fs0[p].bytes
    ELSE Encode(Join(Compose(substitutions, Len(substitutions), Lines0(p))))

ReadFailed ==
    /\ pc = "crashed"
    /\ error \in {"UnicodeDecodeError", "IsADirectoryError"}
    /\ fs0[keymap_path].kind = "dir"

\* C9: the state a failed read of a directory run ends in.
C9_ReadFailure ==
    ReadFailed =>
       /\ handed # <<>>
       /\ cur = handed[Len(handed)]
       /\ \A j \in 1..(Len(handed) - 1) :
             /\ fs[handed[j]].bytes = Rewritten(handed[j])
             /\ ~dry_run => mtime[handed[j]] = 1
       /\ \A p \in Paths :
             (p = cur \/ p \notin Range(handed)) => fs[p] = fs0[p] /\ mtime[p] = 0
       /\ ~ENABLED Next

C9_Witness ==
    /\ ReadFailed
    /\ error = "UnicodeDecodeError"
    /\ ~dry_run
    /\ Len(handed) = 2
    /\ fs0[handed[1]].bytes = Encode(LineKpA)
    /\ fs[handed[1]].bytes = Encode(LineKpC)
    /\ fs[cur] = fs0[cur]

(***************************************************************************)
(* C10: the dry run reports an entry with the line count n exactly when    *)
(* the run that is not dry rewrites n lines for that entry, for the same   *)
(* table and file.                                                         *)
(***************************************************************************)
\* The run that is not dry stops at entry k with an exception.
StopsAt(k) ==
    /\ NewOf(k) # None
    /\ Matches(Compose(substitutions, k - 1, Lines0(cur)), OldOf(k))
    /\ ~Template(Interpolate(NewOf(k))).ok

\* The number of lines the run that is not dry rewrites for entry k.
Rewrites(k) ==
    IF NewOf(k) = None \/ \E j \in 1..k : StopsAt(j) THEN 0
    ELSE LET lines == Compose(substitutions, k - 1, Lines0(cur))
         IN  Cardinality({i \in 1..Len(lines) : Search(lines[i], OldOf(k))})

RECURSIVE RewriteReport(_)
RewriteReport(k) ==
    IF k = 0 THEN <<>>
    ELSE RewriteReport(k - 1)
         \o (IF Rewrites(k) = 0 THEN <<>>
             ELSE <<Message("would_replace", cur, OldOf(k), NewOf(k), Rewrites(k))>>)

IsWouldReplace(m) == m.kind = "would_replace"

\* C10: the report of the dry run is the report of the rewrites.  The
\* tables that stop the run that is not dry are left out: the property
\* fails without them.
C10_DryRunAgrees ==
    (pc = "main_loop" /\ dry_run /\ \A k \in 1..Len(substitutions) : ~StopsAt(k))
    => SelectSeq(stdout, IsWouldReplace) = RewriteReport(Len(substitutions))

=============================================================================
